---- MODULE Spec2Model ----
(***************************************************************************)
(* Model of arduino/include/PlayerColour.hpp and                           *)
(* arduino/src/PlayerColour.cpp: the PlayerColour enumeration and the      *)
(* colour mapper playerColourToNeopixelColour, called from several         *)
(* execution contexts (loop code, interrupt handlers) that each own a call *)
(* frame, next to the display pixel the callers write the result to.       *)
(***************************************************************************)
EXTENDS Integers

\* Bounds of the model.
MaxRaw == 3     \* integers -MaxRaw..MaxRaw may sit in a PlayerColour argument
NumCtx == 3     \* execution contexts that may be inside the function at once

\* enum PlayerColour { RED, YELLOW, EMPTY };
RED == 0
YELLOW == 1
EMPTY == 2
PlayerColour == {RED, YELLOW, EMPTY}

\* What an object of type PlayerColour can hold once an integer has been cast
\* into it upstream: the enumerators and out-of-domain values on both sides.
RawColour == (-MaxRaw)..MaxRaw

Ctx == 1..NumCtx

VARIABLES
  pc,      \* pc[t]: "idle", "called" (argument passed, body not yet run), "returned"
  arg,     \* arg[t]: the by-value parameter `colour` of context t's call frame
  ret,     \* ret[t]: the value context t's call returned
  pixel    \* the display colour last written by a caller: state outside every frame

vars == <<pc, arg, ret, pixel>>

\* Variants of the mapper with a plausible slip each.
playerColourToNeopixelColour_green(colour) ==
  CASE colour = RED    -> 16711680
    [] colour = YELLOW -> 65280          \* 0x00FF00
    [] OTHER           -> 0

playerColourToNeopixelColour_closed(colour) ==
  CASE colour = RED    -> 16711680
    [] colour = YELLOW -> 16776960
    [] colour = EMPTY  -> 0
    [] OTHER           -> 16777215       \* 0xFFFFFF for anything else

playerColourToNeopixelColour_ordered(colour) ==
  IF colour <= RED THEN 16711680         \* range test instead of equality
  ELSE IF colour = YELLOW THEN 16776960
  ELSE 0

playerColourToNeopixelColour_wide(colour) ==
  CASE colour = RED    -> 267386880      \* 0xFF00000: one digit too many
    [] colour = YELLOW -> 16776960
    [] OTHER           -> 0

playerColourToNeopixelColour_stateful(colour) ==
  CASE colour = RED    -> 16711680
    [] colour = YELLOW -> 16776960
    [] OTHER           -> pixel                  \* "leave the LED as it is"

playerColourToNeopixelColour_fallthrough(colour) ==
  CASE colour = RED    -> 16776960       \* missing return: RED runs into YELLOW
    [] colour = YELLOW -> 16776960
    [] OTHER           -> 0

\* uint32_t playerColourToNeopixelColour(PlayerColour colour): the switch.
\* Each returned literal is non-negative and below 2^24, so its conversion to
\* the return type uint32_t leaves the value as written.
playerColourToNeopixelColour(colour) ==
  CASE colour = RED    -> 16711680       \* 0xFF0000
    [] colour = YELLOW -> 16776960       \* 0xFFFF00
    [] OTHER           -> 0              \* 0x000000

Init ==
  /\ pc = [t \in Ctx |-> "idle"]
  /\ arg = [t \in Ctx |-> EMPTY]     \* no frame yet: placeholder contents
  /\ ret = [t \in Ctx |-> 0]
  /\ pixel = 0

\* Context t calls the function: the argument is copied into its own frame.
Call(t, c) ==
  /\ pc[t] = "idle"
  /\ pc' = [pc EXCEPT ![t] = "called"]
  /\ arg' = [arg EXCEPT ![t] = c]
  /\ UNCHANGED <<ret, pixel>>

\* Variants of the body's execution with a plausible slip each.
Return_trap(t) ==
  /\ pc[t] = "called"
  /\ arg[t] \in PlayerColour                      \* no default: nothing to return
  /\ pc' = [pc EXCEPT ![t] = "returned"]
  /\ ret' = [ret EXCEPT ![t] = playerColourToNeopixelColour(arg[t])]
  /\ UNCHANGED <<arg, pixel>>

Return_cache(t) ==
  /\ pc[t] = "called"
  /\ pc' = [pc EXCEPT ![t] = "returned"]
  /\ ret' = [ret EXCEPT ![t] = playerColourToNeopixelColour(arg[t])]
  /\ pixel' = playerColourToNeopixelColour(arg[t])   \* result kept in a static
  /\ UNCHANGED arg

Return_sharedArg(t) ==
  /\ pc[t] = "called"
  /\ \E u \in Ctx :                                \* parameter held in static storage:
       /\ pc[u] = "called"                         \* any active caller's value is read
       /\ ret' = [ret EXCEPT ![t] = playerColourToNeopixelColour(arg[u])]
  /\ pc' = [pc EXCEPT ![t] = "returned"]
  /\ UNCHANGED <<arg, pixel>>

\* Context t runs the body: the switch on its own `colour`, then the return.
Return(t) ==
  /\ pc[t] = "called"
  /\ pc' = [pc EXCEPT ![t] = "returned"]
  /\ ret' = [ret EXCEPT ![t] = playerColourToNeopixelColour(arg[t])]
  /\ UNCHANGED <<arg, pixel>>

\* The caller of context t uses the result: it writes the packed colour to the
\* display and its frame is gone.
Consume(t) ==
  /\ pc[t] = "returned"
  /\ pixel' = ret[t]
  /\ pc' = [pc EXCEPT ![t] = "idle"]
  /\ arg' = [arg EXCEPT ![t] = EMPTY]
  /\ ret' = [ret EXCEPT ![t] = 0]

Next ==
  \/ \E t \in Ctx, c \in RawColour : Call(t, c)
  \/ \E t \in Ctx : Return(t)
  \/ \E t \in Ctx : Consume(t)

Spec == Init /\ [][Next]_vars

(***************************************************************************)
(* Properties.                                                             *)
(***************************************************************************)

\* Context t holds the result of a completed call on arg[t].
Returned(t) == pc[t] = "returned"

\* Context t has passed its argument and the body has not run yet.
InCall(t) == pc[t] = "called"

\* The channels of a packed colour: red in bits 16-23, green in 8-15, blue in 0-7.
RedOf(v) == (v \div 65536) % 256
GreenOf(v) == (v \div 256) % 256
BlueOf(v) == v % 256
Pack(r, g, b) == r * 65536 + g * 256 + b

\* C1: for each of the three defined PlayerColour values the call returns the
\* tabled constant: RED -> 0xFF0000, YELLOW -> 0xFFFF00, EMPTY -> 0x000000.
C1_TabledConstants ==
  \A t \in Ctx :
    Returned(t) =>
      /\ (arg[t] = RED => ret[t] = 16711680)
      /\ (arg[t] = YELLOW => ret[t] = 16776960)
      /\ (arg[t] = EMPTY => ret[t] = 0)

\* Calls on RED, on YELLOW and on EMPTY have all returned.
C1_Witness ==
  \E t, u, v \in Ctx :
    /\ Returned(t) /\ arg[t] = RED
    /\ Returned(u) /\ arg[u] = YELLOW
    /\ Returned(v) /\ arg[v] = EMPTY

\* C2: every input that is neither RED nor YELLOW (EMPTY, and every
\* out-of-domain integer sitting in the enumeration, such as 3 or -1) returns
\* 0x000000.
C2_DefaultIsBlack ==
  \A t \in Ctx :
    (Returned(t) /\ arg[t] # RED /\ arg[t] # YELLOW) => ret[t] = 0

\* Calls on EMPTY, on 3 and on -1 have all returned.
C2_Witness ==
  \E t, u, v \in Ctx :
    /\ Returned(t) /\ arg[t] = EMPTY
    /\ Returned(u) /\ arg[u] = 3
    /\ Returned(v) /\ arg[v] = -1

\* C3: the function is total and has no error outcome: a call on any input,
\* unrecognized values included, can always complete, a context is never in any
\* state but idle, called or returned, and what it returns is a number.
C3_TotalNoError ==
  \A t \in Ctx :
    /\ pc[t] \in {"idle", "called", "returned"}
    /\ (InCall(t) => ENABLED Return(t))
    /\ (Returned(t) => ret[t] \in Nat)

\* One call on an unrecognized value is about to run its body and another such
\* call has completed.
C3_Witness ==
  \E t, u \in Ctx :
    /\ InCall(t) /\ arg[t] \notin PlayerColour
    /\ Returned(u) /\ arg[u] \notin PlayerColour /\ arg[u] # arg[t]

\* C4: every returned value is one of the three fixed constants 0xFF0000,
\* 0xFFFF00, 0x000000.
C4_OneOfThreeConstants ==
  \A t \in Ctx : Returned(t) => ret[t] \in {16711680, 16776960, 0}

\* All three constants are held as results at once, the black one for an
\* unrecognized input.
C4_Witness ==
  \E t, u, v \in Ctx :
    /\ Returned(t) /\ ret[t] = 16711680
    /\ Returned(u) /\ ret[u] = 16776960
    /\ Returned(v) /\ ret[v] = 0 /\ arg[v] \notin PlayerColour

\* C5: every returned value is a packed 24-bit RGB integer (R<<16 | G<<8 | B,
\* bits 24..31 zero) whose channels are (255,0,0) for RED, (255,255,0) for
\* YELLOW and (0,0,0) for EMPTY and for any unrecognized value.
C5_PackedRGB ==
  \A t \in Ctx :
    Returned(t) =>
      /\ ret[t] = Pack(RedOf(ret[t]), GreenOf(ret[t]), BlueOf(ret[t]))
      /\ ret[t] \div 16777216 = 0
      /\ <<RedOf(ret[t]), GreenOf(ret[t]), BlueOf(ret[t])>> =
           IF arg[t] = RED THEN <<255, 0, 0>>
           ELSE IF arg[t] = YELLOW THEN <<255, 255, 0>>
           ELSE <<0, 0, 0>>

\* Results for RED, for YELLOW and for an unrecognized negative value are held
\* at once.
C5_Witness ==
  \E t, u, v \in Ctx :
    /\ Returned(t) /\ arg[t] = RED /\ RedOf(ret[t]) = 255
    /\ Returned(u) /\ arg[u] = YELLOW /\ GreenOf(ret[u]) = 255
    /\ Returned(v) /\ arg[v] < 0

\* C6: the function is deterministic: two calls on the same input hold the
\* same result, whatever calls were made and consumed between them.
C6_Deterministic ==
  \A t, u \in Ctx :
    (Returned(t) /\ Returned(u) /\ arg[t] = arg[u]) => ret[t] = ret[u]

\* Two contexts hold results for the same input, one that is neither RED nor
\* YELLOW, after the caller of an earlier call has written the display.
C6_Witness ==
  \E t, u \in Ctx :
    /\ t # u
    /\ Returned(t) /\ Returned(u)
    /\ arg[t] = arg[u]
    /\ arg[t] \notin {RED, YELLOW}
    /\ pixel # 0

\* C7: a call leaves all state outside its own argument and return value
\* unchanged: a step of context t's call changes neither the display nor any
\* other context's frame.
C7_NoSideEffects ==
  [][\A t \in Ctx :
       ((\E c \in RawColour : Call(t, c)) \/ Return(t)) =>
         /\ pixel' = pixel
         /\ \A u \in Ctx \ {t} :
              pc'[u] = pc[u] /\ arg'[u] = arg[u] /\ ret'[u] = ret[u]]_vars

\* A call has returned a colour other than the one on the display, which a
\* caller wrote before.
C7_Witness ==
  \E t \in Ctx : Returned(t) /\ pixel # 0 /\ ret[t] # pixel

\* C8: the function is reentrant: however the calls of the contexts
\* interleave, each caller gets the result of a lone call on its own input,
\* and a call that has started can run its body whatever the others are doing.
C8_Reentrant ==
  \A t \in Ctx :
    /\ (InCall(t) => ENABLED Return(t))
    /\ (Returned(t) => ret[t] = playerColourToNeopixelColour(arg[t]))

\* A call has returned while two other calls, on inputs with other results,
\* were in progress.
C8_Witness ==
  \E t, u, v \in Ctx :
    /\ t # u /\ u # v /\ t # v
    /\ Returned(t) /\ arg[t] = YELLOW
    /\ InCall(u) /\ arg[u] = RED
    /\ InCall(v) /\ arg[v] \notin PlayerColour

\* C9: on RED, YELLOW, EMPTY the function is injective; over all inputs the
\* result is non-zero exactly for RED and YELLOW; and an unrecognized value
\* gives the result EMPTY gives.
C9_InjectiveAndLit ==
  \A t, u \in Ctx :
    (Returned(t) /\ Returned(u)) =>
      /\ (arg[t] \in PlayerColour /\ arg[u] \in PlayerColour /\ arg[t] # arg[u]
            => ret[t] # ret[u])
      /\ (ret[t] # 0 <=> arg[t] \in {RED, YELLOW})
      /\ (arg[t] \notin PlayerColour /\ arg[u] = EMPTY => ret[t] = ret[u])

\* Results for RED, for EMPTY and for an unrecognized value are held at once.
C9_Witness ==
  \E t, u, v \in Ctx :
    /\ Returned(t) /\ arg[t] = RED
    /\ Returned(u) /\ arg[u] = EMPTY /\ ret[u] # ret[t]
    /\ Returned(v) /\ arg[v] \notin PlayerColour /\ ret[v] = ret[u]

====
